---- MODULE Spec2Model ----
(***************************************************************************)
(* five-bells-sender: one call of sendPayment, executePayment or findPath  *)
(* (src/src/index.js), followed through its asynchronous steps.  Every     *)
(* action is the piece of code that runs between two yields: it starts     *)
(* with the answer to the request the generator is waiting for and ends    *)
(* with the next request issued, or with the promise settled.              *)
(***************************************************************************)
EXTENDS Integers, Sequences, FiniteSets, TLC

\* ------------------------------------------------------------------------
\* Bounds of the model
\* ------------------------------------------------------------------------
MaxConnectors == 2
MaxCost == 2

Costs == 1..MaxCost

\* ------------------------------------------------------------------------
\* JavaScript values
\* ------------------------------------------------------------------------
Undefined == "undefined"
False == "false"

\* truthiness of a string-valued parameter or local
Truthy(x) == x \notin {Undefined, False}

\* a || b
Or(a, b) == IF Truthy(a) THEN a ELSE b

\* conditions are records; kind "undefined" and "false" are the falsy ones
CondUndefined == [kind |-> "undefined"]
CondFalse == [kind |-> "false"]
SuppliedCond(n) == [kind |-> "supplied", name |-> n]
CondTruthy(c) == c.kind \notin {"undefined", "false"}
CondOr(a, b) == IF CondTruthy(a) THEN a ELSE b

\* ------------------------------------------------------------------------
\* Quotes
\* ------------------------------------------------------------------------
NoQuote == [present |-> FALSE, connector |-> 0, cost |-> 0]
Quote(i, c) == [present |-> TRUE, connector |-> i, cost |-> c]

\* one slot of the array that findPath yields: the promise of
\* getQuoteFromConnector for one connector
Pending == [status |-> "pending", cost |-> 0]
Failed == [status |-> "failed", cost |-> 0]
Answered(c) == [status |-> "ok", cost |-> c]

\* quoteUtils.getQuoteFromConnector: the request answers with a quote or fails
QuoteResponses == {Failed} \cup {Answered(c) : c \in Costs}

\* quoteUtils.getCheaperQuote: lower cost wins, the first one wins a tie
getCheaperQuote(quote1, quote2) ==
  IF quote2.cost < quote1.cost THEN quote2 ELSE quote1

\* Array.prototype.reduce without an initial value, over a non-empty array
RECURSIVE ReduceFrom(_, _, _)
ReduceFrom(acc, arr, i) ==
  IF i > Len(arr) THEN acc
  ELSE ReduceFrom(getCheaperQuote(acc, arr[i]), arr, i + 1)

\* the array `paths` once every promise has resolved
ResolvedPaths(ps) == [i \in 1..Len(ps) |-> Quote(i, ps[i].cost)]

\* findPath, lines 185-186
SelectQuote(arr) ==
  IF Len(arr) = 0 THEN NoQuote ELSE ReduceFrom(arr[1], arr, 2)

\* co's yield of an array of promises rejects as soon as one of them rejects
JoinRejects(r) == r.status = "failed"

\* a mutant of JoinResolves: the first quote to arrive ends the wait
JoinResolvesOnFirst(ps) == \E j \in 1..Len(ps) : ps[j].status # "pending"

\* co's yield of an array of promises resolves when all of them have
JoinResolves(ps) == \A j \in 1..Len(ps) : ps[j].status # "pending"

\* ------------------------------------------------------------------------
\* Parameters
\* ------------------------------------------------------------------------
Presence(v) == {Undefined, v}

PaymentParams ==
  [ sourceAmount : Presence("10"),
    destinationAmount : Presence("10"),
    notary : Presence("notaryURI"),
    notaryPublicKey : Presence("publicKey"),
    caseId : Presence("case1"),
    caseID : Presence("case2"),
    destinationMemo : Presence("destinationMemo"),
    sourceMemo : Presence("sourceMemo"),
    receiptCondition : Presence("receiptCondition"),
    executionCondition : {CondUndefined, SuppliedCond("condA")},
    cancellationCondition : {CondUndefined, SuppliedCond("condA")} ]

\* findPath reads the two accounts and the two amounts only
FindPathParams ==
  { p \in PaymentParams :
      /\ p.notary = Undefined /\ p.notaryPublicKey = Undefined
      /\ p.caseId = Undefined /\ p.caseID = Undefined
      /\ p.destinationMemo = Undefined /\ p.sourceMemo = Undefined
      /\ p.receiptCondition = Undefined
      /\ p.executionCondition = CondUndefined
      /\ p.cancellationCondition = CondUndefined }

\* sendPayment hands executePayment no executionCondition, cancellationCondition
\* or caseID (lines 47-61)
SendPaymentParams ==
  { p \in PaymentParams :
      /\ p.caseID = Undefined
      /\ p.executionCondition = CondUndefined
      /\ p.cancellationCondition = CondUndefined }

\* executePayment has no amount parameters
ExecutePaymentParams ==
  { p \in PaymentParams :
      p.sourceAmount = Undefined /\ p.destinationAmount = Undefined }

\* the quote a caller hands executePayment: a quote, or what findPath
\* resolved with when it found no path
CallerQuotes == {NoQuote} \cup {Quote(1, c) : c \in Costs}

\* ------------------------------------------------------------------------
\* Transfers
\* ------------------------------------------------------------------------
NoTransfer ==
  [ assembled |-> FALSE,
    debits0 |-> [amount |-> 0, memo |-> Undefined],
    credits0 |-> [memo |-> [destination_transfer |->
                    [credits0 |-> [memo |-> Undefined]]]],
    execution_condition |-> CondUndefined,
    cancellation_condition |-> CondUndefined,
    cases |-> Undefined,
    state |-> Undefined ]

LedgerStates == {"proposed", "prepared"}

VARIABLES
  entry,           \* the exported function the caller called
  params,          \* its params argument
  pc,              \* the yield the call is waiting at
  calls,           \* the requests issued and helpers invoked so far, in order
  paths,           \* findPath: the array of quote promises
  quote,           \* the quote: executePayment's argument, findPath's result
  sourceTransfer,  \* executePayment: let sourceTransfer
  caseId,          \* executePayment: const caseId
  cases,           \* the cases registered with the notary
  submitted,       \* the transfers submitted to the ledger
  outcome,         \* the returned promise: pending, resolved or rejected
  error,           \* the error it was rejected with
  found,           \* findPath's promise: pending, resolved or rejected
  res              \* what each endpoint answered in this call

vars == <<entry, params, pc, calls, paths, quote, sourceTransfer, caseId,
          cases, submitted, outcome, error, found, res>>

\* no endpoint has answered yet
NoResponses ==
  [ findPathAccount |-> 0, connectors |-> "none", notary |-> "none",
    account |-> 0, transfer |-> "none" ]

StatusCodes == {200, 404}

Init ==
  /\ entry \in {"sendPayment", "executePayment", "findPath"}
  /\ params \in PaymentParams
  /\ entry = "findPath" => params \in FindPathParams
  /\ entry = "sendPayment" => params \in SendPaymentParams
  /\ entry = "executePayment" => params \in ExecutePaymentParams
  /\ quote \in CallerQuotes
  /\ entry # "executePayment" => quote = NoQuote
  /\ pc = "start"
  /\ calls = <<>>
  /\ paths = <<>>
  /\ sourceTransfer = NoTransfer
  /\ caseId = Undefined
  /\ cases = <<>>
  /\ submitted = <<>>
  /\ outcome = "pending"
  /\ error = Undefined
  /\ found = "pending"
  /\ res = NoResponses

\* a mutant of Reject: the error of the step is replaced by a generic one
RejectReplaced(e) ==
  /\ outcome' = "rejected"
  /\ error' = "Error"
  /\ pc' = "done"

\* the promise is rejected with e
Reject(e) ==
  /\ outcome' = "rejected"
  /\ error' = e
  /\ pc' = "done"

\* ------------------------------------------------------------------------
\* findPath
\* ------------------------------------------------------------------------

\* findPath resolves with q; sendPayment's then-callback takes it from there
FindPathResolves(q) ==
  /\ quote' = q
  /\ found' = "resolved"
  /\ error' = error
  /\ IF entry = "sendPayment"
       THEN pc' = "then" /\ outcome' = outcome
       ELSE pc' = "done" /\ outcome' = "resolved"

\* findPath is rejected with e, and with it sendPayment
FindPathRejects(e) ==
  /\ found' = "rejected"
  /\ Reject(e)

\* a mutant of AccountNotIdentified: the status code is not looked at
AccountNotIdentifiedUnchecked(statusCode) == FALSE

\* getAccount, line 197: res.statusCode !== 200
AccountNotIdentified(statusCode) == statusCode # 200

\* sendPayment or findPath is called: findPath runs up to its first yield,
\* the GET of the source account
findPath ==
  /\ pc = "start"
  /\ entry \in {"sendPayment", "findPath"}
  /\ calls' = Append(calls, "findPath.getAccount")
  /\ pc' = "fp_account"
  /\ UNCHANGED <<entry, params, paths, quote, sourceTransfer, caseId, cases,
                 submitted, outcome, error, found, res>>

\* the account endpoint answers; on 200 the connectors of the ledger are asked for
getAccountLedger ==
  /\ pc = "fp_account"
  /\ \E statusCode \in StatusCodes :
       /\ res' = [res EXCEPT !.findPathAccount = statusCode]
       /\ IF AccountNotIdentified(statusCode)
            THEN /\ FindPathRejects("Unable to identify ledger from account")
                 /\ calls' = calls
            ELSE /\ calls' = Append(calls, "findPath.getLedgerConnectors")
                 /\ pc' = "fp_connectors"
                 /\ UNCHANGED <<outcome, error, found>>
  /\ UNCHANGED <<entry, params, paths, quote, sourceTransfer, caseId, cases,
                 submitted>>

\* the connector list arrives (or the request fails); one quote request is
\* issued per connector, and an empty list ends findPath with no quote
getLedgerConnectors ==
  /\ pc = "fp_connectors"
  /\ \/ /\ res' = [res EXCEPT !.connectors = "failed"]
        /\ FindPathRejects("connectors request failed")
        /\ UNCHANGED <<calls, paths, quote>>
     \/ \E n \in 0..MaxConnectors :
          /\ res' = [res EXCEPT !.connectors = "listed"]
          /\ paths' = [i \in 1..n |-> Pending]
          /\ calls' = calls \o [i \in 1..n |-> "findPath.getQuoteFromConnector"]
          /\ IF n = 0
               THEN FindPathResolves(SelectQuote(<<>>))
               ELSE /\ pc' = "fp_quotes"
                    /\ UNCHANGED <<quote, outcome, error, found>>
  /\ UNCHANGED <<entry, params, sourceTransfer, caseId, cases, submitted>>

\* one connector's quote request settles, in any order; the join rejects on
\* the first failure and resolves when the last quote has arrived; what
\* arrives after the join was rejected changes nothing
getQuoteFromConnector ==
  /\ \/ pc = "fp_quotes"
     \/ pc = "done" /\ found = "rejected"
  /\ \E i \in 1..Len(paths), r \in QuoteResponses :
       /\ paths[i] = Pending
       /\ paths' = [paths EXCEPT ![i] = r]
       /\ IF pc = "done"
            THEN UNCHANGED <<pc, quote, outcome, error, found>>
          ELSE IF JoinRejects(r)
            THEN FindPathRejects("quote request failed") /\ quote' = quote
          ELSE IF JoinResolves(paths')
            THEN FindPathResolves(SelectQuote(ResolvedPaths(paths')))
            ELSE UNCHANGED <<pc, quote, outcome, error, found>>
  /\ UNCHANGED <<entry, params, calls, sourceTransfer, caseId, cases,
                 submitted, res>>

\* ------------------------------------------------------------------------
\* Helpers of executePayment
\* ------------------------------------------------------------------------

\* a mutant of IsAtomic: the mode follows notaryPublicKey, not notary
IsAtomicByKey(p) == Truthy(p.notaryPublicKey)

\* line 97: const isAtomic = !!params.notary
IsAtomic(p) == Truthy(p.notary)

\* a mutant of MissingNotaryPublicKey: the check is gone
MissingNotaryPublicKeyUnchecked(p) == FALSE

\* line 98: isAtomic && !params.notaryPublicKey
MissingNotaryPublicKey(p) == IsAtomic(p) /\ ~Truthy(p.notaryPublicKey)

\* a mutant of MissingReceiptCondition: the check is gone
MissingReceiptConditionUnchecked(p) == FALSE

\* line 120: !receiptCondition
MissingReceiptCondition(p) == ~Truthy(p.receiptCondition)

\* transferUtils.setupTransfers fails on a quote that lacks its fields
SetupTransfersFails(q) == ~q.present

\* transferUtils.setupTransfers: the source transfer of the quote, the
\* destination transfer nested in the memo of its first credit
setupTransfers(q) ==
  [NoTransfer EXCEPT !.assembled = TRUE, !.debits0.amount = q.cost]

\* a mutant of AttachMemos: the two memos change places
AttachMemosSwapped(t, p) ==
  LET t1 == IF Truthy(p.destinationMemo)
              THEN [t EXCEPT !.debits0.memo = p.destinationMemo]
              ELSE t
  IN IF Truthy(p.sourceMemo)
       THEN [t1 EXCEPT !.credits0.memo.destination_transfer.credits0.memo
                         = p.sourceMemo]
       ELSE t1

\* lines 104-109: the caller's memos
AttachMemos(t, p) ==
  LET t1 == IF Truthy(p.destinationMemo)
              THEN [t EXCEPT !.credits0.memo.destination_transfer.credits0.memo
                               = p.destinationMemo]
              ELSE t
  IN IF Truthy(p.sourceMemo)
       THEN [t1 EXCEPT !.debits0.memo = p.sourceMemo]
       ELSE t1

\* line 126: the caseId handed to notaryUtils.setupCase
RequestedCaseId(p) == Or(p.caseID, p.caseId)

GeneratedCaseId == "uuid"

\* notaryUtils.setupCase: the caller's caseId, or a generated one
CaseIdOfCase(requested) ==
  IF Truthy(requested) THEN requested ELSE GeneratedCaseId

\* a mutant of ConditionParams: the caseId of params, not the one of the case
ConditionParamsOfCaller(p, cid) ==
  [ receiptCondition |-> p.receiptCondition,
    caseId |-> p.caseId,
    notary |-> p.notary,
    notaryPublicKey |-> p.notaryPublicKey ]

\* lines 132-137
ConditionParams(p, cid) ==
  [ receiptCondition |-> p.receiptCondition,
    caseId |-> cid,
    notary |-> p.notary,
    notaryPublicKey |-> p.notaryPublicKey ]

\* conditionUtils.getExecutionCondition: a function of its parameters
getExecutionCondition(cp) == [kind |-> "execution", of |-> cp]

\* conditionUtils.getCancellationCondition: a function of its parameters
getCancellationCondition(cp) == [kind |-> "cancellation", of |-> cp]

\* a mutant of ExecutionCondition: no execution condition at all
ExecutionConditionDropped(p, cid) == CondUndefined

\* a mutant of ExecutionCondition: derived also when the caller gave one
ExecutionConditionDerived(p, cid) ==
  getExecutionCondition(ConditionParams(p, cid))

\* line 139
ExecutionCondition(p, cid) ==
  CondOr(p.executionCondition, getExecutionCondition(ConditionParams(p, cid)))

\* line 140
CancellationCondition(p, cid) ==
  IF IsAtomic(p)
    THEN CondOr(p.cancellationCondition,
                getCancellationCondition(ConditionParams(p, cid)))
    ELSE CondFalse

\* the derivations lines 139-140 call, in order
DerivationCalls(p) ==
  (IF CondTruthy(p.executionCondition)
     THEN <<>> ELSE <<"getExecutionCondition">>)
  \o (IF IsAtomic(p) /\ ~CondTruthy(p.cancellationCondition)
        THEN <<"getCancellationCondition">> ELSE <<>>)

\* transferUtils.setupConditions: the execution condition, and in atomic
\* mode the cancellation condition and the case
setupConditions(t, isAtomic, executionCondition, cancellationCondition, cid) ==
  IF isAtomic
    THEN [t EXCEPT !.execution_condition = executionCondition,
                   !.cancellation_condition = cancellationCondition,
                   !.cases = cid]
    ELSE [t EXCEPT !.execution_condition = executionCondition]

\* lines 132-150: the conditions are attached and the source account is
\* asked for
Conditioning(t, cid) ==
  /\ sourceTransfer' = setupConditions(t, IsAtomic(params),
                         ExecutionCondition(params, cid),
                         CancellationCondition(params, cid), cid)
  /\ caseId' = cid
  /\ pc' = "ep_account"

ConditioningCalls ==
  DerivationCalls(params) \o <<"setupConditions", "executePayment.getAccount">>

NotaryResponses == {"created", "failed"}

\* a mutant of SetupCaseThrows: the payment goes on without a case
SetupCaseThrowsNever(r) == FALSE

\* line 124: the yield of setupCase throws when its promise is rejected
SetupCaseThrows(r) == r = "failed"

\* a mutant of SubmissionsAfterAccount: the transfer is posted twice
SubmitsTwice(t) == <<t, t>>

\* lines 151-157: one postTransfer
SubmissionsAfterAccount(t) == <<t>>

\* ------------------------------------------------------------------------
\* executePayment
\* ------------------------------------------------------------------------

\* executePayment is called, by the caller or by sendPayment's then-callback,
\* and runs up to its first yield: setupCase in atomic mode, the GET of the
\* source account in universal mode
executePayment ==
  /\ \/ pc = "start" /\ entry = "executePayment"
     \/ pc = "then"
  /\ IF MissingNotaryPublicKey(params)
       THEN /\ Reject("Missing required parameter: notaryPublicKey")
            /\ UNCHANGED <<calls, sourceTransfer, caseId>>
     ELSE IF SetupTransfersFails(quote)
       THEN /\ Reject("setupTransfers failed")
            /\ calls' = Append(calls, "setupTransfers")
            /\ UNCHANGED <<sourceTransfer, caseId>>
     ELSE LET t == AttachMemos(setupTransfers(quote), params) IN
       IF MissingReceiptCondition(params)
         THEN /\ Reject("Missing required parameter: receiptCondition")
              /\ calls' = Append(calls, "setupTransfers")
              /\ sourceTransfer' = t
              /\ caseId' = caseId
       ELSE IF IsAtomic(params)
         THEN /\ calls' = calls \o <<"setupTransfers", "setupCase">>
              /\ sourceTransfer' = t
              /\ pc' = "ep_case"
              /\ UNCHANGED <<caseId, outcome, error>>
       ELSE /\ Conditioning(t, False)
            /\ calls' = calls \o <<"setupTransfers">> \o ConditioningCalls
            /\ UNCHANGED <<outcome, error>>
  /\ UNCHANGED <<entry, params, paths, quote, cases, submitted, found, res>>

\* the notary answers the case creation
setupCase ==
  /\ pc = "ep_case"
  /\ \E r \in NotaryResponses :
       /\ res' = [res EXCEPT !.notary = r]
       /\ cases' = IF r = "created"
                     THEN Append(cases, CaseIdOfCase(RequestedCaseId(params)))
                     ELSE cases
       /\ IF SetupCaseThrows(r)
            THEN /\ Reject("setupCase failed")
                 /\ UNCHANGED <<calls, sourceTransfer, caseId>>
            ELSE /\ Conditioning(sourceTransfer,
                                 IF r = "created"
                                   THEN CaseIdOfCase(RequestedCaseId(params))
                                   ELSE Undefined)
                 /\ calls' = calls \o ConditioningCalls
                 /\ UNCHANGED <<outcome, error>>
  /\ UNCHANGED <<entry, params, paths, quote, submitted, found>>

\* the source account answers; on 200 the transfer is submitted
getAccount ==
  /\ pc = "ep_account"
  /\ \E statusCode \in StatusCodes :
       /\ res' = [res EXCEPT !.account = statusCode]
       /\ IF AccountNotIdentified(statusCode)
            THEN /\ Reject("Unable to identify ledger from account")
                 /\ UNCHANGED <<calls, submitted>>
            ELSE /\ submitted' = submitted \o SubmissionsAfterAccount(sourceTransfer)
                 /\ calls' = calls \o
                      [i \in 1..Len(SubmissionsAfterAccount(sourceTransfer))
                         |-> "postTransfer"]
                 /\ pc' = "ep_post"
                 /\ UNCHANGED <<outcome, error>>
  /\ UNCHANGED <<entry, params, paths, quote, sourceTransfer, caseId, cases,
                 found>>

\* a mutant of WithLedgerState: the answer of the ledger is dropped
WithLedgerStateDropped(t, st) == t

\* line 151: sourceTransfer.state = yield transferUtils.postTransfer(...)
WithLedgerState(t, st) == [t EXCEPT !.state = st]

\* the ledger answers the submission with the state of the transfer, or
\* the submission fails
postTransfer ==
  /\ pc = "ep_post"
  /\ \/ /\ res' = [res EXCEPT !.transfer = "failed"]
        /\ Reject("postTransfer failed")
        /\ sourceTransfer' = sourceTransfer
     \/ \E st \in LedgerStates :
          /\ res' = [res EXCEPT !.transfer = st]
          /\ sourceTransfer' = WithLedgerState(sourceTransfer, st)
          /\ outcome' = "resolved"
          /\ pc' = "done"
          /\ error' = error
  /\ UNCHANGED <<entry, params, calls, paths, quote, caseId, cases, submitted,
                 found>>

Next ==
  \/ findPath
  \/ getAccountLedger
  \/ getLedgerConnectors
  \/ getQuoteFromConnector
  \/ executePayment
  \/ setupCase
  \/ getAccount
  \/ postTransfer

Spec == Init /\ [][Next]_vars

\* ------------------------------------------------------------------------
\* Properties
\* ------------------------------------------------------------------------
Called(op) == \E i \in 1..Len(calls) : calls[i] = op

Count(op) == Cardinality({i \in 1..Len(calls) : calls[i] = op})

NetworkCalls ==
  { "findPath.getAccount", "findPath.getLedgerConnectors",
    "findPath.getQuoteFromConnector", "setupCase",
    "executePayment.getAccount", "postTransfer" }

FindPathCalls ==
  { "findPath.getAccount", "findPath.getLedgerConnectors",
    "findPath.getQuoteFromConnector" }

MissingKeyError == "Missing required parameter: notaryPublicKey"
MissingReceiptError == "Missing required parameter: receiptCondition"
ValidationErrors == {MissingKeyError, MissingReceiptError}

\* executePayment has run its first piece, called directly or from sendPayment
ExecutePaymentCalled ==
  \/ entry = "executePayment" /\ pc # "start"
  \/ entry = "sendPayment" /\ found = "resolved" /\ pc # "then"

NotaryWithoutKey ==
  Truthy(params.notary) /\ ~Truthy(params.notaryPublicKey)

\* C1 as stated: a payment started through sendPayment or executePayment with
\* notary set and notaryPublicKey absent has made no network call of any kind,
\* and once settled it has failed with the parameter-validation error.
C1_AsStated ==
  (entry \in {"sendPayment", "executePayment"} /\ NotaryWithoutKey) =>
    /\ \A i \in 1..Len(calls) : calls[i] \notin NetworkCalls
    /\ outcome # "pending" =>
         outcome = "rejected" /\ error = MissingKeyError

\* C1, amended: with notary set and notaryPublicKey absent, executePayment
\* fails with the validation error having made no network call and assembled
\* no transfer; sendPayment makes the calls of findPath only, and once
\* findPath has resolved it fails with that validation error; when findPath
\* is rejected, sendPayment is rejected with findPath's error.
C1_FailFastInExecutePayment ==
  NotaryWithoutKey =>
    /\ entry = "executePayment" =>
         /\ calls = <<>>
         /\ pc # "start" => outcome = "rejected" /\ error = MissingKeyError
    /\ entry = "sendPayment" =>
         /\ \A i \in 1..Len(calls) : calls[i] \in FindPathCalls
         /\ cases = <<>> /\ submitted = <<>>
         /\ ExecutePaymentCalled =>
              outcome = "rejected" /\ error = MissingKeyError
         /\ found = "rejected" =>
              outcome = "rejected" /\ error # MissingKeyError

C1_Witness ==
  /\ entry = "sendPayment" /\ NotaryWithoutKey
  /\ found = "resolved" /\ quote.present
  /\ outcome = "rejected" /\ error = MissingKeyError

\* C2 as stated: every executePayment call with receiptCondition absent fails
\* with a validation error, and no notary case creation, condition
\* derivation, account lookup or transfer submission happens.
C2_AsStated ==
  (ExecutePaymentCalled /\ ~Truthy(params.receiptCondition)) =>
    /\ outcome = "rejected" /\ error \in ValidationErrors
    /\ ~Called("setupCase") /\ ~Called("getExecutionCondition")
    /\ ~Called("getCancellationCondition")
    /\ ~Called("executePayment.getAccount") /\ ~Called("postTransfer")

\* C2, amended: every executePayment call with receiptCondition absent fails,
\* and no notary case creation, condition derivation, account lookup or
\* transfer submission happens; the error is the missing-notaryPublicKey
\* validation error when that check fails, else the error of setupTransfers
\* when the quote cannot be assembled, else the missing-receiptCondition
\* validation error.
C2_NoReceiptConditionFails ==
  (ExecutePaymentCalled /\ ~Truthy(params.receiptCondition)) =>
    /\ outcome = "rejected"
    /\ error = IF NotaryWithoutKey THEN MissingKeyError
               ELSE IF ~quote.present THEN "setupTransfers failed"
               ELSE MissingReceiptError
    /\ ~Called("setupCase") /\ ~Called("getExecutionCondition")
    /\ ~Called("getCancellationCondition") /\ ~Called("setupConditions")
    /\ ~Called("executePayment.getAccount") /\ ~Called("postTransfer")
    /\ cases = <<>> /\ submitted = <<>>
    /\ sourceTransfer.execution_condition = CondUndefined

C2_Witness ==
  /\ entry = "executePayment" /\ pc = "done"
  /\ ~Truthy(params.receiptCondition) /\ Truthy(params.notary)
  /\ quote.present
  /\ error = MissingReceiptError

\* C3: when findPath finds no path, sendPayment is not rejected, and no
\* transfer is assembled, no notary call made and no transfer submitted.
C3_NoPathEndsEmpty ==
  (entry = "sendPayment" /\ found = "resolved" /\ ~quote.present) =>
    /\ outcome # "rejected"
    /\ ~Called("setupTransfers")
    /\ ~Called("setupCase")
    /\ ~Called("postTransfer")

\* C4: when the connector list has arrived and no connector produced a quote
\* (the list is empty, or every quote request failed), findPath has resolved
\* with the empty result and has not failed.
C4_NoQuotesResolvesEmpty ==
  ( /\ found # "pending"
    /\ res.connectors = "listed"
    /\ \A i \in 1..Len(paths) : paths[i].status = "failed" ) =>
    found = "resolved" /\ ~quote.present

\* C5: once findPath has settled and at least one connector has returned a
\* quote, findPath has resolved with a quote of one of the connectors that
\* answered, whatever the other requests did.
C5_PartialFailureTolerated ==
  (found # "pending" /\ \E i \in 1..Len(paths) : paths[i].status = "ok") =>
    /\ found = "resolved"
    /\ quote.present
    /\ paths[quote.connector].status = "ok"

\* q is the cheapest of the quotes that arrived, the first of them on a tie
CheapestFirst(q) ==
  /\ q.present
  /\ paths[q.connector].status = "ok"
  /\ q.cost = paths[q.connector].cost
  /\ \A j \in 1..Len(paths) :
       paths[j].status = "ok" =>
         \/ paths[j].cost > q.cost
         \/ paths[j].cost = q.cost /\ j >= q.connector

\* C6: once every quote request has settled and at least one succeeded,
\* findPath has resolved with the lowest-cost quote, the first one in the
\* connector list among those of lowest cost.
C6_CheapestQuoteSelected ==
  ( /\ found # "pending"
    /\ \A i \in 1..Len(paths) : paths[i].status # "pending"
    /\ \E i \in 1..Len(paths) : paths[i].status = "ok" ) =>
    found = "resolved" /\ CheapestFirst(quote)

\* C7: a transfer submitted when params.notary is absent carries no
\* cancellation condition, whatever params.cancellationCondition is; a
\* transfer submitted when params.notary is present carries one.
C7_CancellationConditionByMode ==
  \A i \in 1..Len(submitted) :
    IF Truthy(params.notary)
      THEN CondTruthy(submitted[i].cancellation_condition)
      ELSE submitted[i].cancellation_condition = CondUndefined

C7_Witness ==
  /\ Len(submitted) = 1
  /\ ~Truthy(params.notary)
  /\ CondTruthy(params.cancellationCondition)

\* C8: when the notary's case creation has failed, executePayment is rejected
\* with that error, and no condition has been derived or attached, no account
\* looked up and no transfer submitted.
C8_NotaryFailureIsFatal ==
  res.notary = "failed" =>
    /\ outcome = "rejected" /\ error = "setupCase failed"
    /\ pc = "done"
    /\ ~Called("getExecutionCondition") /\ ~Called("getCancellationCondition")
    /\ ~Called("setupConditions")
    /\ ~Called("executePayment.getAccount") /\ ~Called("postTransfer")
    /\ submitted = <<>>
    /\ sourceTransfer.execution_condition = CondUndefined

C8_Witness ==
  /\ res.notary = "failed"
  /\ Truthy(params.notary) /\ Called("setupCase")
  /\ outcome = "rejected"

\* C9: when the source account endpoint has answered findPath with a status
\* other than 200, findPath is rejected with the account error, and no
\* connector listing and no quote request has been issued.
C9_AccountFailureStopsFindPath ==
  res.findPathAccount \notin {0, 200} =>
    /\ found = "rejected"
    /\ outcome = "rejected"
    /\ error = "Unable to identify ledger from account"
    /\ ~Called("findPath.getLedgerConnectors")
    /\ ~Called("findPath.getQuoteFromConnector")
    /\ paths = <<>>

C9_Witness ==
  /\ entry = "findPath"
  /\ res.findPathAccount = 404
  /\ found = "rejected"

\* C10: the transfer is submitted at most once: exactly once when the source
\* account lookup, and so every step before it, has succeeded, not at all
\* otherwise, and not again after a failed submission.
C10_SubmittedAtMostOnce ==
  /\ Len(submitted) = IF res.account = 200 THEN 1 ELSE 0
  /\ Count("postTransfer") = Len(submitted)
  /\ (outcome = "resolved" /\ entry # "findPath") => Len(submitted) = 1
  /\ (outcome = "rejected" /\ res.transfer = "none") => submitted = <<>>
  /\ res.transfer = "failed" =>
       Len(submitted) = 1 /\ pc = "done" /\ outcome = "rejected"

C10_Witness ==
  /\ res.transfer = "failed"
  /\ Len(submitted) = 1
  /\ outcome = "rejected"

\* every call of a in the log comes before every call of b
Before(a, b) ==
  \A i, j \in 1..Len(calls) : (calls[i] = a /\ calls[j] = b) => i < j

\* C11: in atomic mode the notary case is registered before any condition is
\* derived or attached; in both modes the conditions are derived, then
\* attached, then the transfer is submitted; every submitted transfer has its
\* execution condition, and in atomic mode its cancellation condition and case.
C11_StepsInOrder ==
  /\ Before("setupTransfers", "setupCase")
  /\ Before("setupCase", "getExecutionCondition")
  /\ Before("setupCase", "getCancellationCondition")
  /\ Before("setupCase", "setupConditions")
  /\ Before("getExecutionCondition", "setupConditions")
  /\ Before("getCancellationCondition", "setupConditions")
  /\ Before("setupConditions", "postTransfer")
  /\ ( /\ Truthy(params.notary)
       /\ \/ Called("getExecutionCondition")
          \/ Called("getCancellationCondition")
          \/ Called("setupConditions") ) =>
       /\ Called("setupCase")
       /\ res.notary = "created"
       /\ Len(cases) = 1
  /\ Called("postTransfer") => Called("setupConditions")
  /\ \A i \in 1..Len(submitted) :
       /\ CondTruthy(submitted[i].execution_condition)
       /\ Truthy(params.notary) =>
            /\ CondTruthy(submitted[i].cancellation_condition)
            /\ Truthy(submitted[i].cases)

C11_Witness ==
  /\ Truthy(params.notary)
  /\ Len(submitted) = 1
  /\ Called("getExecutionCondition")
  /\ Called("getCancellationCondition")

\* C12: in atomic mode the submitted transfer carries the caseId of the case
\* registered with the notary in this run, which is the caller's when the
\* caller gave one and the generated one otherwise, and the derived
\* conditions were derived from that caseId; in universal mode the transfer
\* carries no caseId.
C12_CaseIdOfRegisteredCase ==
  \A i \in 1..Len(submitted) :
    LET t == submitted[i] IN
    IF Truthy(params.notary)
      THEN /\ Len(cases) = 1
           /\ t.cases = cases[1]
           /\ IF Truthy(params.caseID) \/ Truthy(params.caseId)
                THEN Truthy(t.cases) /\ t.cases \in {params.caseID, params.caseId}
                ELSE t.cases = GeneratedCaseId
           /\ t.execution_condition.kind = "execution" =>
                t.execution_condition.of.caseId = cases[1]
           /\ t.cancellation_condition.kind = "cancellation" =>
                t.cancellation_condition.of.caseId = cases[1]
      ELSE t.cases = Undefined

C12_Witness ==
  /\ Truthy(params.notary)
  /\ ~Truthy(params.caseID) /\ ~Truthy(params.caseId)
  /\ Len(submitted) = 1
  /\ submitted[1].cases = GeneratedCaseId
  /\ Called("getExecutionCondition")

\* C13: every transfer submitted in atomic mode carries a cancellation
\* condition that differs from its execution condition.
C13_ConditionsDistinct ==
  \A i \in 1..Len(submitted) :
    Truthy(params.notary) =>
      /\ CondTruthy(submitted[i].cancellation_condition)
      /\ submitted[i].cancellation_condition # submitted[i].execution_condition

\* C14: a sendPayment or findPath request that sets both of sourceAmount and
\* destinationAmount, or neither, requests no quote, and once findPath has
\* settled it has been rejected with a validation error.
C14_ExactlyOneAmount ==
  ( /\ entry \in {"sendPayment", "findPath"}
    /\ Truthy(params.sourceAmount) = Truthy(params.destinationAmount) ) =>
    /\ ~Called("findPath.getQuoteFromConnector")
    /\ found # "pending" =>
         found = "rejected" /\ error \in ValidationErrors

\* C15: on success the returned transfer has the state the ledger answered
\* the submission with, and is in every other field the transfer that was
\* submitted.
C15_ReturnedTransfer ==
  (outcome = "resolved" /\ entry # "findPath") =>
    /\ Len(submitted) = 1
    /\ res.transfer \in LedgerStates
    /\ sourceTransfer.state = res.transfer
    /\ [sourceTransfer EXCEPT !.state = submitted[1].state] = submitted[1]

C15_Witness ==
  /\ entry = "executePayment"
  /\ outcome = "resolved"
  /\ res.transfer = "prepared"
  /\ submitted[1].state = Undefined

\* the step that failed, its error, and nothing run after it
FailedStepEndsAttempt ==
  /\ outcome = "rejected" => pc = "done"
  /\ found = "rejected" =>
       /\ outcome = "rejected"
       /\ \A i \in 1..Len(calls) : calls[i] \in FindPathCalls
  /\ res.findPathAccount \notin {0, 200} =>
       /\ found = "rejected"
       /\ error = "Unable to identify ledger from account"
       /\ calls = <<"findPath.getAccount">>
  /\ res.connectors = "failed" =>
       /\ found = "rejected"
       /\ error = "connectors request failed"
       /\ ~Called("findPath.getQuoteFromConnector")
  /\ (found = "rejected" /\ res.connectors = "listed") =>
       /\ error = "quote request failed"
       /\ \E i \in 1..Len(paths) : paths[i].status = "failed"
  /\ (ExecutePaymentCalled /\ NotaryWithoutKey) =>
       /\ outcome = "rejected" /\ error = MissingKeyError
       /\ ~Called("setupTransfers")
  /\ (ExecutePaymentCalled /\ ~NotaryWithoutKey /\ ~quote.present) =>
       /\ outcome = "rejected" /\ error = "setupTransfers failed"
       /\ ~Called("setupCase") /\ ~Called("setupConditions")
  /\ ( /\ ExecutePaymentCalled /\ ~NotaryWithoutKey /\ quote.present
       /\ ~Truthy(params.receiptCondition) ) =>
       /\ outcome = "rejected" /\ error = MissingReceiptError
       /\ ~Called("setupCase") /\ ~Called("setupConditions")
  /\ res.notary = "failed" =>
       /\ outcome = "rejected" /\ error = "setupCase failed"
       /\ ~Called("setupConditions") /\ ~Called("executePayment.getAccount")
  /\ res.account \notin {0, 200} =>
       /\ outcome = "rejected"
       /\ error = "Unable to identify ledger from account"
       /\ ~Called("postTransfer")
  /\ res.transfer = "failed" =>
       /\ outcome = "rejected" /\ error = "postTransfer failed"
       /\ sourceTransfer.state = Undefined

\* once the promise is rejected nothing more is called and the error stays
RejectedIsFinal ==
  outcome = "rejected" =>
    /\ outcome' = outcome /\ error' = error /\ pc' = pc
    /\ calls' = calls /\ cases' = cases /\ submitted' = submitted
    /\ sourceTransfer' = sourceTransfer

DerivedFrom ==
  [ receiptCondition |-> params.receiptCondition,
    caseId |-> caseId,
    notary |-> params.notary,
    notaryPublicKey |-> params.notaryPublicKey ]

\* C17: a caller-supplied executionCondition is the execution condition of
\* the submitted transfer and none is derived; in atomic mode the same holds
\* of cancellationCondition; a condition is derived, from receiptCondition,
\* caseId, notary and notaryPublicKey, only when the caller supplied none.
C17_SuppliedConditionsUsed ==
  /\ CondTruthy(params.executionCondition) => ~Called("getExecutionCondition")
  /\ CondTruthy(params.cancellationCondition) =>
       ~Called("getCancellationCondition")
  /\ ~Truthy(params.notary) => ~Called("getCancellationCondition")
  /\ \A i \in 1..Len(submitted) :
       LET t == submitted[i] IN
       /\ IF CondTruthy(params.executionCondition)
            THEN t.execution_condition = params.executionCondition
            ELSE /\ Called("getExecutionCondition")
                 /\ t.execution_condition =
                      [kind |-> "execution", of |-> DerivedFrom]
       /\ Truthy(params.notary) =>
            IF CondTruthy(params.cancellationCondition)
              THEN t.cancellation_condition = params.cancellationCondition
              ELSE /\ Called("getCancellationCondition")
                   /\ t.cancellation_condition =
                        [kind |-> "cancellation", of |-> DerivedFrom]

C17_Witness ==
  /\ Len(submitted) = 1
  /\ Truthy(params.notary)
  /\ CondTruthy(params.executionCondition)
  /\ ~CondTruthy(params.cancellationCondition)
  /\ submitted[1].execution_condition = SuppliedCond("condA")

\* a case is registered and the account lookup or the submission has failed
FailedAfterCase ==
  /\ Len(cases) >= 1
  /\ res.account \notin {0, 200} \/ res.transfer = "failed"

\* executePayment has failed, the case is as it was registered, the notary
\* was called once, and the ledger reported no state for the transfer
CaseLeftAsIs ==
  FailedAfterCase =>
    /\ outcome = "rejected" /\ pc = "done"
    /\ Len(cases) = 1
    /\ Count("setupCase") = 1
    /\ sourceTransfer.state = Undefined
    /\ res.account \notin {0, 200} =>
         submitted = <<>> /\ ~Called("postTransfer")

\* from there on nothing is called, registered or submitted
NothingAfterFailedCase ==
  FailedAfterCase =>
    calls' = calls /\ cases' = cases /\ submitted' = submitted /\ pc' = pc

\* C18: in atomic mode, when the account lookup or the submission fails after
\* the case was registered, executePayment fails, the case stays registered
\* with no further call to the notary, the ledger has executed nothing for
\* this call, and the state reached is final.
C18_NoCompensation ==
  []CaseLeftAsIs /\ [][NothingAfterFailedCase]_vars

C18_Witness ==
  /\ Len(cases) = 1
  /\ res.account = 404
  /\ submitted = <<>>
  /\ pc = "done" /\ outcome = "rejected"

\* the memo of the first credit of the source transfer: the nested
\* destination transfer, whose first credit has memo m
NestedDestinationTransfer(m) ==
  [destination_transfer |-> [credits0 |-> [memo |-> m]]]

\* t has the memos executePayment gives the transfer assembled from the quote
MemosAttached(t) ==
  /\ t.debits0.memo =
       IF Truthy(params.sourceMemo)
         THEN params.sourceMemo
         ELSE setupTransfers(quote).debits0.memo
  /\ t.credits0.memo =
       NestedDestinationTransfer(
         IF Truthy(params.destinationMemo)
           THEN params.destinationMemo
           ELSE setupTransfers(quote).credits0.memo
                  .destination_transfer.credits0.memo)

\* C19: from the moment the transfer is assembled, and so before the notary
\* is called and before the submission, destinationMemo is the memo of the
\* first credit of the nested destination transfer and sourceMemo the memo of
\* the first debit of the source transfer, an absent memo parameter leaves
\* the memo as setupTransfers made it, and the first credit's memo of the
\* source transfer holds the nested destination transfer.
C19_MemosAttached ==
  /\ sourceTransfer.assembled => MemosAttached(sourceTransfer)
  /\ ~sourceTransfer.assembled => sourceTransfer = NoTransfer
  /\ (Called("setupCase") \/ Called("setupConditions")) =>
       sourceTransfer.assembled
  /\ \A i \in 1..Len(submitted) :
       submitted[i].assembled /\ MemosAttached(submitted[i])

C19_Witness ==
  /\ pc = "ep_case"
  /\ Called("setupCase")
  /\ Truthy(params.destinationMemo) /\ ~Truthy(params.sourceMemo)
  /\ sourceTransfer.credits0.memo.destination_transfer.credits0.memo
       = "destinationMemo"
  /\ sourceTransfer.debits0.memo = Undefined

\* C20: findPath resolves only when every quote request has completed, and
\* the quote it resolves with is fixed by the connector list and the quotes
\* returned: the cheapest, the first in the list on a tie, whatever the
\* order the responses arrived in.
C20_SelectionIgnoresArrivalOrder ==
  /\ (found = "resolved" /\ Len(paths) > 0) =>
       /\ \A i \in 1..Len(paths) : paths[i].status = "ok"
       /\ CheapestFirst(quote)
  /\ (found = "resolved" /\ Len(paths) = 0) => quote = NoQuote
  /\ (pc = "fp_quotes" /\ \E i \in 1..Len(paths) : paths[i] = Pending) =>
       found = "pending" /\ quote = NoQuote

C20_Witness ==
  /\ found = "resolved"
  /\ Len(paths) = 2
  /\ paths[1].cost > paths[2].cost
  /\ quote = Quote(2, paths[2].cost)

====
